---- MODULE Spec2Model ----
(***************************************************************************)
(* XEO.Plane (src/src/extras/geometry/plane.js): a plane geometry whose    *)
(* five properties (xSize, ySize, xSegments, ySegments, lod) are set       *)
(* through guarded setters that mark the grid dirty, and whose buffers are *)
(* rebuilt by _buildGrid in a callback registered once on the scene's      *)
(* "tick2" event.                                                          *)
(*                                                                         *)
(* Numbers are exact rationals <<n, d>> in lowest terms with d > 0; the    *)
(* JavaScript value undefined is the empty tuple.  A typed array is the    *)
(* record of its constructor and its length; the values the loops of       *)
(* _buildGrid write into it are a function of the locals of that build,    *)
(* which the variable grid keeps.                                          *)
(***************************************************************************)
EXTENDS Integers, Sequences, FiniteSets, TLC

\* Most effective mutations the model follows between two scene ticks
\* (the five of construction included).
MaxMutations == 6

-----------------------------------------------------------------------------
\* Numbers

Undefined == << >>

Abs(n) == IF n < 0 THEN -n ELSE n

RECURSIVE GCD(_, _)
GCD(a, b) == IF b = 0 THEN a ELSE GCD(b, a % b)

\* The rational n/d (d # 0) in lowest terms with a positive denominator.
Rat(n, d) ==
    LET g == GCD(Abs(n), Abs(d))
        sgn == IF d < 0 THEN -1 ELSE 1
    IN  << (sgn * n) \div g, (sgn * d) \div g >>

Num(n) == << n, 1 >>

Lt(a, b) == a[1] * b[2] < b[1] * a[2]

Mul(a, b) == Rat(a[1] * b[1], a[2] * b[2])

Div(a, b) == Rat(a[1] * b[2], a[2] * b[1])

Sub(a, b) == Rat(a[1] * b[2] - b[1] * a[2], a[2] * b[2])

Neg(a) == << -a[1], a[2] >>

RECURSIVE Pow2(_)
Pow2(n) == IF n = 0 THEN 1 ELSE 2 * Pow2(n - 1)

\* The largest k with d * 2^k <= n (for n >= d > 0), counting up from k.
RECURSIVE ExpUp(_, _, _)
ExpUp(n, d, k) == IF d * Pow2(k + 1) <= n THEN ExpUp(n, d, k + 1) ELSE k

\* The least k with n * 2^k >= d (for 0 < n < d), counting up from k.
RECURSIVE ExpDown(_, _, _)
ExpDown(n, d, k) == IF n * Pow2(k) >= d THEN k ELSE ExpDown(n, d, k + 1)

\* The nearest single-precision number (24 significant bits, ties to even):
\* what a Float32Array keeps of a number written into it.  The numbers of the
\* model are far from the ends of the exponent range.
Fround(a) ==
    IF a[1] = 0 THEN a
    ELSE LET n == Abs(a[1])
             d == a[2]
             e == IF n >= d THEN ExpUp(n, d, 0) ELSE -ExpDown(n, d, 0)
             \* |a| * 2^(23-e) = num / den, in [2^23, 2^24)
             num == IF e <= 23 THEN n * Pow2(23 - e) ELSE n
             den == IF e <= 23 THEN d ELSE d * Pow2(e - 23)
             q == num \div den
             r == num % den
             m == IF 2 * r > den \/ (2 * r = den /\ q % 2 = 1) THEN q + 1 ELSE q
             sgn == IF a[1] < 0 THEN -1 ELSE 1
         IN  IF e <= 23 THEN Rat(sgn * m, Pow2(23 - e))
             ELSE << sgn * m * Pow2(e - 23), 1 >>

\* Math.floor
Floor(a) == a[1] \div a[2]

\* JavaScript truthiness of undefined or a number: undefined and 0 are falsy.
Falsy(v) == v = Undefined \/ v[1] = 0

-----------------------------------------------------------------------------
\* The Plane's state

VARIABLES
    xSize,        \* this._xSize
    ySize,        \* this._ySize
    xSegments,    \* this._xSegments
    ySegments,    \* this._ySegments
    lod,          \* this._lod
    dirty,        \* this.__dirty
    pending,      \* rebuild callbacks of this Plane registered on the scene's "tick2"
    positions,    \* this.positions
    normals,      \* this.normals
    uv,           \* this.uv
    indices,      \* this.indices
    grid,         \* the locals of the most recent _buildGrid
    log,          \* what the most recent operation did, in the order it did it
    mutations,    \* setter calls that passed the no-op guard since the last tick
    destroyed     \* the Plane has been torn down

vars == << xSize, ySize, xSegments, ySegments, lod, dirty, pending,
           positions, normals, uv, indices, grid, log, mutations, destroyed >>

params == << xSize, ySize, xSegments, ySegments, lod >>

buffers == << positions, normals, uv, indices, grid >>

\* A typed array: new ctor(length)
TypedArray(ctor, length) == [ctor |-> ctor, length |-> length]

\* A buffer no build has assigned yet.
NoBuffer == TypedArray("undefined", 0)

NoGrid == [width |-> Undefined, height |-> Undefined, gridX |-> 0, gridY |-> 0,
           gridX1 |-> 0, gridY1 |-> 0,
           segmentWidth |-> Undefined, segmentHeight |-> Undefined]

\* The object before _init has run: no field is set.
Blank ==
    [xSize |-> Undefined, ySize |-> Undefined, xSegments |-> Undefined,
     ySegments |-> Undefined, lod |-> Undefined, dirty |-> FALSE, pending |-> 0,
     positions |-> NoBuffer, normals |-> NoBuffer, uv |-> NoBuffer,
     indices |-> NoBuffer, grid |-> NoGrid, log |-> << >>]

\* The object as the variables hold it.
This ==
    [xSize |-> xSize, ySize |-> ySize, xSegments |-> xSegments,
     ySegments |-> ySegments, lod |-> lod, dirty |-> dirty, pending |-> pending,
     positions |-> positions, normals |-> normals, uv |-> uv,
     indices |-> indices, grid |-> grid, log |-> log]

Entry(kind, name, value) == [kind |-> kind, name |-> name, value |-> value]

Logged(s, kind, name, value) == [s EXCEPT !.log = Append(@, Entry(kind, name, value))]

\* this.warn(message)
warn(s, message) == Logged(s, "warn", message, Undefined)

\* this.fire(name, value)
fire(s, name, value) == Logged(s, "fire", name, value)

-----------------------------------------------------------------------------
\* _gridDirty

\* _gridDirty without its test of the flag.
gridDirty_Unguarded(s) ==
    Logged([Logged(s, "gridDirty", "", Undefined)
               EXCEPT !.dirty = TRUE, !.pending = @ + 1],
           "once", "tick2", Undefined)

gridDirty(s) ==
    LET s1 == Logged(s, "gridDirty", "", Undefined)
    IN  IF ~s1.dirty
        THEN Logged([s1 EXCEPT !.dirty = TRUE, !.pending = @ + 1],
                    "once", "tick2", Undefined)
        ELSE s1

-----------------------------------------------------------------------------
\* _buildGrid

\* The index constructor with >= for >.
IndexCtor_AtLeast(positionsLength) ==
    IF ~Lt(Div(Num(positionsLength), Num(3)), Num(65535))
    THEN "Uint32Array" ELSE "Uint16Array"

\* The constructor without the test: always 16-bit indices.
IndexCtor_Always16(positionsLength) == "Uint16Array"

\* The typed array constructor of the index buffer.
IndexCtor(positionsLength) ==
    IF Lt(Num(65535), Div(Num(positionsLength), Num(3)))
    THEN "Uint32Array" ELSE "Uint16Array"

\* The effective grid without the minimum of 4 on ySegments.
EffectiveGrid_NoMinimum(s) ==
    LET xSegs == Floor(Mul(s.lod, s.xSegments))
        ySegs == Floor(Mul(s.lod, s.ySegments))
        gridX == IF xSegs = 0 THEN 1 ELSE xSegs
        gridY == IF ySegs = 0 THEN 1 ELSE ySegs
    IN  [width |-> s.xSize, height |-> s.ySize, gridX |-> gridX, gridY |-> gridY,
         gridX1 |-> gridX + 1, gridY1 |-> gridY + 1,
         segmentWidth |-> Div(s.xSize, Num(gridX)),
         segmentHeight |-> Div(s.ySize, Num(gridY))]

\* The effective segment counts of a build and what is derived from them.
EffectiveGrid(s) ==
    LET width == s.xSize
        height == s.ySize
        xSegs == Floor(Mul(s.lod, s.xSegments))
        ySegs0 == Floor(Mul(s.lod, s.ySegments))
        ySegs == IF ySegs0 < 4 THEN 4 ELSE ySegs0
        gridX == IF xSegs = 0 THEN 1 ELSE xSegs
        gridY == IF ySegs = 0 THEN 1 ELSE ySegs
    IN  [width |-> width, height |-> height, gridX |-> gridX, gridY |-> gridY,
         gridX1 |-> gridX + 1, gridY1 |-> gridY + 1,
         segmentWidth |-> Div(width, Num(gridX)),
         segmentHeight |-> Div(height, Num(gridY))]

\* The allocation with the index buffer sized by vertices instead of cells.
Allocate_IndicesByVertex(g) ==
    LET pos == TypedArray("Float32Array", g.gridX1 * g.gridY1 * 3)
    IN  [positions |-> pos,
         normals |-> TypedArray("Float32Array", g.gridX1 * g.gridY1 * 3),
         uvs |-> TypedArray("Float32Array", g.gridX1 * g.gridY1 * 2),
         indices |-> TypedArray(IndexCtor(pos.length), g.gridX1 * g.gridY1 * 6)]

\* The four typed arrays a build allocates.
Allocate(g) ==
    LET pos == TypedArray("Float32Array", g.gridX1 * g.gridY1 * 3)
    IN  [positions |-> pos,
         normals |-> TypedArray("Float32Array", g.gridX1 * g.gridY1 * 3),
         uvs |-> TypedArray("Float32Array", g.gridX1 * g.gridY1 * 2),
         indices |-> TypedArray(IndexCtor(pos.length), g.gridX * g.gridY * 6)]

buildGrid(s) ==
    LET g == EffectiveGrid(s)
        a == Allocate(g)
    IN  Logged([s EXCEPT !.positions = a.positions, !.normals = a.normals,
                         !.uv = a.uvs, !.indices = a.indices, !.grid = g],
               "buildGrid", "", Undefined)

\* What a typed array keeps of a value written into it: a Float32Array the
\* nearest single-precision number, a Uint16Array the value modulo 2^16.  (A
\* Uint32Array keeps the value modulo 2^32, taken here half by half: every
\* index of the model is in 0..2^31-1.)
StoreElement(ctor, value) ==
    CASE ctor = "Float32Array" -> Fround(value)
      [] ctor = "Uint16Array" -> value % 65536
      [] ctor = "Uint32Array" ->
            ((value \div 65536) % 65536) * 65536 + (value % 65536)

\* The elements of a typed array just constructed: all zero.
ZeroFilled(a, zero) == [k \in 0..(a.length - 1) |-> zero]

\* array[k] = value; an index outside the array is ignored.
Write(ctor, data, k, value) ==
    IF k \in DOMAIN data THEN [data EXCEPT ![k] = StoreElement(ctor, value)]
    ELSE data

\* The inner vertex loop without the flip: positions[offset + 1] = y.
RECURSIVE VertexColumns_NoFlip(_, _)
VertexColumns_NoFlip(g, st) ==
    IF ~(st.ix < g.gridX1) THEN st
    ELSE LET halfWidth == Div(g.width, Num(2))
             halfHeight == Div(g.height, Num(2))
             y == Sub(Mul(Num(st.iy), g.segmentHeight), halfHeight)
             x == Sub(Mul(Num(st.ix), g.segmentWidth), halfWidth)
             p1 == Write("Float32Array", st.positions, st.offset, x)
             p2 == Write("Float32Array", p1, st.offset + 1, y)
             n1 == Write("Float32Array", st.normals, st.offset + 2, Num(-1))
             u1 == Write("Float32Array", st.uvs, st.offset2,
                         Div(Num(g.gridX - st.ix), Num(g.gridX)))
             u2 == Write("Float32Array", u1, st.offset2 + 1,
                         Sub(Num(1), Div(Num(g.gridY - st.iy), Num(g.gridY))))
         IN  VertexColumns_NoFlip(g,
                 [st EXCEPT !.positions = p2, !.normals = n1, !.uvs = u2,
                            !.offset = @ + 3, !.offset2 = @ + 2, !.ix = @ + 1])

\* for (ix = 0; ix < gridX1; ix++): one vertex of row iy per turn; st holds the
\* locals of _buildGrid the loops read and write.
RECURSIVE VertexColumns(_, _)
VertexColumns(g, st) ==
    IF ~(st.ix < g.gridX1) THEN st
    ELSE LET halfWidth == Div(g.width, Num(2))
             halfHeight == Div(g.height, Num(2))
             y == Sub(Mul(Num(st.iy), g.segmentHeight), halfHeight)
             x == Sub(Mul(Num(st.ix), g.segmentWidth), halfWidth)
             p1 == Write("Float32Array", st.positions, st.offset, x)
             p2 == Write("Float32Array", p1, st.offset + 1, Neg(y))
             n1 == Write("Float32Array", st.normals, st.offset + 2, Num(-1))
             u1 == Write("Float32Array", st.uvs, st.offset2,
                         Div(Num(g.gridX - st.ix), Num(g.gridX)))
             u2 == Write("Float32Array", u1, st.offset2 + 1,
                         Sub(Num(1), Div(Num(g.gridY - st.iy), Num(g.gridY))))
         IN  VertexColumns(g,
                 [st EXCEPT !.positions = p2, !.normals = n1, !.uvs = u2,
                            !.offset = @ + 3, !.offset2 = @ + 2, !.ix = @ + 1])

\* for (iy = 0; iy < gridY1; iy++)
RECURSIVE VertexRows(_, _)
VertexRows(g, st) ==
    IF ~(st.iy < g.gridY1) THEN st
    ELSE VertexRows(g,
             [VertexColumns(g, [st EXCEPT !.ix = 0]) EXCEPT !.iy = @ + 1])

\* The six indices with the first triangle wound the other way: a, b, d.
CellIndices_Reversed(g, ix, iy) ==
    LET a == ix + g.gridX1 * iy
        b == ix + g.gridX1 * (iy + 1)
        c == (ix + 1) + g.gridX1 * (iy + 1)
        d == (ix + 1) + g.gridX1 * iy
    IN  << a, b, d, d, c, b >>

\* The six indices of the cell (ix, iy), in the order they are written.
CellIndices(g, ix, iy) ==
    LET a == ix + g.gridX1 * iy
        b == ix + g.gridX1 * (iy + 1)
        c == (ix + 1) + g.gridX1 * (iy + 1)
        d == (ix + 1) + g.gridX1 * iy
    IN  << d, b, a, d, c, b >>

\* The six writes of one cell, from slot k of the six on.
RECURSIVE WriteCell(_, _, _, _, _)
WriteCell(ctor, data, offset, six, k) ==
    IF k > 6 THEN data
    ELSE WriteCell(ctor, Write(ctor, data, offset + k - 1, six[k]), offset, six, k + 1)

\* for (ix = 0; ix < gridX; ix++): one cell of row iy per turn.
RECURSIVE CellColumns(_, _, _)
CellColumns(g, ctor, st) ==
    IF ~(st.ix < g.gridX) THEN st
    ELSE CellColumns(g, ctor,
             [st EXCEPT !.indices = WriteCell(ctor, @, st.offset,
                                              CellIndices(g, st.ix, st.iy), 1),
                        !.written = @ \cup (st.offset..(st.offset + 5)),
                        !.offset = @ + 6,
                        !.ix = @ + 1])

\* for (iy = 0; iy < gridY; iy++)
RECURSIVE CellRows(_, _, _)
CellRows(g, ctor, st) ==
    IF ~(st.iy < g.gridY) THEN st
    ELSE CellRows(g, ctor,
             [CellColumns(g, ctor, [st EXCEPT !.ix = 0]) EXCEPT !.iy = @ + 1])

\* The elements of the position, normal and UV arrays, allocated as a for the
\* grid g, after the vertex loops of _buildGrid.
FillVertices(g, a) ==
    VertexRows(g,
        [positions |-> ZeroFilled(a.positions, Num(0)),
         normals |-> ZeroFilled(a.normals, Num(0)),
         uvs |-> ZeroFilled(a.uvs, Num(0)),
         offset |-> 0, offset2 |-> 0, iy |-> 0, ix |-> 0])

\* The elements of the index array, allocated as a for the grid g, after the
\* index loops of _buildGrid; written is the set of slots assigned.
FillIndices(g, a) ==
    CellRows(g, a.ctor,
        [indices |-> ZeroFilled(a, 0), written |-> {}, offset |-> 0,
         iy |-> 0, ix |-> 0])

\* The callback _gridDirty registers.
rebuild(s) ==
    LET s1 == buildGrid(s)
    IN  Logged([s1 EXCEPT !.dirty = FALSE], "clean", "", Undefined)

-----------------------------------------------------------------------------
\* The setters

\* The lod setter with the two bounds of its clamp swapped.
lodSet_SwappedClamp(s, arg) ==
    LET s1 == Logged(s, "set", "lod", arg)
        value == IF arg # Undefined THEN arg ELSE Num(1)
    IN  IF s1.lod = value
        THEN s1
        ELSE LET out == Lt(value, Num(0)) \/ Lt(Num(1), value)
                 s2 == IF out THEN warn(s1, "clamping lod to [0..1]") ELSE s1
                 v2 == IF out THEN (IF Lt(value, Num(0)) THEN Num(1) ELSE Num(0))
                       ELSE value
                 s3 == Logged([s2 EXCEPT !.lod = v2], "store", "lod", v2)
                 s4 == gridDirty(s3)
             IN  fire(s4, "lod", s4.lod)

\* The lod setter that warns of a value outside [0,1] and stores it as it is.
lodSet_NoClamp(s, arg) ==
    LET s1 == Logged(s, "set", "lod", arg)
        value == IF arg # Undefined THEN arg ELSE Num(1)
    IN  IF s1.lod = value
        THEN s1
        ELSE LET out == Lt(value, Num(0)) \/ Lt(Num(1), value)
                 s2 == IF out THEN warn(s1, "clamping lod to [0..1]") ELSE s1
                 s3 == Logged([s2 EXCEPT !.lod = value], "store", "lod", value)
                 s4 == gridDirty(s3)
             IN  fire(s4, "lod", s4.lod)

lodSet(s, arg) ==
    LET s1 == Logged(s, "set", "lod", arg)
        value == IF arg # Undefined THEN arg ELSE Num(1)
    IN  IF s1.lod = value
        THEN s1
        ELSE LET out == Lt(value, Num(0)) \/ Lt(Num(1), value)
                 s2 == IF out THEN warn(s1, "clamping lod to [0..1]") ELSE s1
                 v2 == IF out THEN (IF Lt(value, Num(0)) THEN Num(0) ELSE Num(1))
                       ELSE value
                 s3 == Logged([s2 EXCEPT !.lod = v2], "store", "lod", v2)
                 s4 == gridDirty(s3)
             IN  fire(s4, "lod", s4.lod)

\* The xSize setter without its no-op guard.
xSizeSet_NoGuard(s, arg) ==
    LET s1 == Logged(s, "set", "xSize", arg)
        value == IF Falsy(arg) THEN Num(1) ELSE arg
        neg == Lt(value, Num(0))
        s2 == IF neg THEN warn(s1, "negative xSize not allowed - will invert")
              ELSE s1
        v2 == IF neg THEN Mul(value, Num(-1)) ELSE value
        s3 == Logged([s2 EXCEPT !.xSize = v2], "store", "xSize", v2)
        s4 == gridDirty(s3)
    IN  fire(s4, "xSize", s4.xSize)

\* The xSize setter that also rebuilds at once (once _init has set every
\* property).
xSizeSet_Eager(s, arg) ==
    LET s1 == Logged(s, "set", "xSize", arg)
        value == IF Falsy(arg) THEN Num(1) ELSE arg
    IN  IF s1.xSize = value
        THEN s1
        ELSE LET neg == Lt(value, Num(0))
                 s2 == IF neg THEN warn(s1, "negative xSize not allowed - will invert")
                       ELSE s1
                 v2 == IF neg THEN Mul(value, Num(-1)) ELSE value
                 s3 == Logged([s2 EXCEPT !.xSize = v2], "store", "xSize", v2)
                 s4 == gridDirty(IF s3.lod = Undefined THEN s3 ELSE buildGrid(s3))
             IN  fire(s4, "xSize", s4.xSize)

xSizeSet(s, arg) ==
    LET s1 == Logged(s, "set", "xSize", arg)
        value == IF Falsy(arg) THEN Num(1) ELSE arg
    IN  IF s1.xSize = value
        THEN s1
        ELSE LET neg == Lt(value, Num(0))
                 s2 == IF neg THEN warn(s1, "negative xSize not allowed - will invert")
                       ELSE s1
                 v2 == IF neg THEN Mul(value, Num(-1)) ELSE value
                 s3 == Logged([s2 EXCEPT !.xSize = v2], "store", "xSize", v2)
                 s4 == gridDirty(s3)
             IN  fire(s4, "xSize", s4.xSize)

\* The ySize setter with the default of the constructor's documentation, 1.
ySizeSet_DefaultOne(s, arg) ==
    LET s1 == Logged(s, "set", "ySize", arg)
        value == IF Falsy(arg) THEN Num(1) ELSE arg
    IN  IF s1.ySize = value
        THEN s1
        ELSE LET neg == Lt(value, Num(0))
                 s2 == IF neg THEN warn(s1, "negative ySize not allowed - will invert")
                       ELSE s1
                 v2 == IF neg THEN Mul(value, Num(-1)) ELSE value
                 s3 == Logged([s2 EXCEPT !.ySize = v2], "store", "ySize", v2)
                 s4 == gridDirty(s3)
             IN  fire(s4, "ySize", s4.ySize)

\* The ySize setter that forgets to mark the grid dirty.
ySizeSet_NoDirty(s, arg) ==
    LET s1 == Logged(s, "set", "ySize", arg)
        value == IF Falsy(arg) THEN Rat(1, 4) ELSE arg
    IN  IF s1.ySize = value
        THEN s1
        ELSE LET neg == Lt(value, Num(0))
                 s2 == IF neg THEN warn(s1, "negative ySize not allowed - will invert")
                       ELSE s1
                 v2 == IF neg THEN Mul(value, Num(-1)) ELSE value
                 s3 == Logged([s2 EXCEPT !.ySize = v2], "store", "ySize", v2)
             IN  fire(s3, "ySize", s3.ySize)

ySizeSet(s, arg) ==
    LET s1 == Logged(s, "set", "ySize", arg)
        value == IF Falsy(arg) THEN Rat(1, 4) ELSE arg
    IN  IF s1.ySize = value
        THEN s1
        ELSE LET neg == Lt(value, Num(0))
                 s2 == IF neg THEN warn(s1, "negative ySize not allowed - will invert")
                       ELSE s1
                 v2 == IF neg THEN Mul(value, Num(-1)) ELSE value
                 s3 == Logged([s2 EXCEPT !.ySize = v2], "store", "ySize", v2)
                 s4 == gridDirty(s3)
             IN  fire(s4, "ySize", s4.ySize)

\* The xSegments setter that warns of a negative value and stores it as it is.
xSegmentsSet_NoInvert(s, arg) ==
    LET s1 == Logged(s, "set", "xSegments", arg)
        value == IF Falsy(arg) THEN Num(4) ELSE arg
    IN  IF s1.xSegments = value
        THEN s1
        ELSE LET neg == Lt(value, Num(0))
                 s2 == IF neg THEN warn(s1, "negative xSegments not allowed - will invert")
                       ELSE s1
                 s3 == Logged([s2 EXCEPT !.xSegments = value], "store", "xSegments", value)
                 s4 == gridDirty(s3)
             IN  fire(s4, "xSegments", s4.xSegments)

xSegmentsSet(s, arg) ==
    LET s1 == Logged(s, "set", "xSegments", arg)
        value == IF Falsy(arg) THEN Num(4) ELSE arg
    IN  IF s1.xSegments = value
        THEN s1
        ELSE LET neg == Lt(value, Num(0))
                 s2 == IF neg THEN warn(s1, "negative xSegments not allowed - will invert")
                       ELSE s1
                 v2 == IF neg THEN Mul(value, Num(-1)) ELSE value
                 s3 == Logged([s2 EXCEPT !.xSegments = v2], "store", "xSegments", v2)
                 s4 == gridDirty(s3)
             IN  fire(s4, "xSegments", s4.xSegments)

\* The ySegments setter that fires its event before it stores the value.
ySegmentsSet_FireFirst(s, arg) ==
    LET s1 == Logged(s, "set", "ySegments", arg)
        value == IF Falsy(arg) THEN Num(4) ELSE arg
    IN  IF s1.ySegments = value
        THEN s1
        ELSE LET neg == Lt(value, Num(0))
                 s2 == IF neg THEN warn(s1, "negative ySegments not allowed - will invert")
                       ELSE s1
                 v2 == IF neg THEN Mul(value, Num(-1)) ELSE value
                 s3 == fire(s2, "ySegments", s2.ySegments)
                 s4 == Logged([s3 EXCEPT !.ySegments = v2], "store", "ySegments", v2)
             IN  gridDirty(s4)

ySegmentsSet(s, arg) ==
    LET s1 == Logged(s, "set", "ySegments", arg)
        value == IF Falsy(arg) THEN Num(4) ELSE arg
    IN  IF s1.ySegments = value
        THEN s1
        ELSE LET neg == Lt(value, Num(0))
                 s2 == IF neg THEN warn(s1, "negative ySegments not allowed - will invert")
                       ELSE s1
                 v2 == IF neg THEN Mul(value, Num(-1)) ELSE value
                 s3 == Logged([s2 EXCEPT !.ySegments = v2], "store", "ySegments", v2)
                 s4 == gridDirty(s3)
             IN  fire(s4, "ySegments", s4.ySegments)

\* _init(cfg), cfg = [xSize, ySize, xSegments, ySegments, lod]
init(s, cfg) ==
    LET s1 == xSizeSet(s, cfg.xSize)
        s2 == ySizeSet(s1, cfg.ySize)
        s3 == xSegmentsSet(s2, cfg.xSegments)
        s4 == ySegmentsSet(s3, cfg.ySegments)
    IN  lodSet(s4, cfg.lod)

\* _getJSON with the lod among its fields.
getJSON_WithLod(s) ==
    [xSize |-> s.xSize, ySize |-> s.ySize,
     xSegments |-> s.xSegments, ySegments |-> s.ySegments, lod |-> s.lod]

\* _getJSON
getJSON(s) ==
    [xSize |-> s.xSize, ySize |-> s.ySize,
     xSegments |-> s.xSegments, ySegments |-> s.ySegments]

-----------------------------------------------------------------------------
\* The scene's "tick2": every callback registered with once() is removed and
\* called.
RECURSIVE runOnce(_, _)
runOnce(s, n) == IF n = 0 THEN s ELSE runOnce(rebuild(s), n - 1)

tick2(s) ==
    runOnce([Logged(s, "tick2", "", Undefined) EXCEPT !.pending = 0], s.pending)

-----------------------------------------------------------------------------
\* Inputs

XSizeInputs == {Undefined, Num(0), Num(-2), Num(2)}

YSizeInputs == {Undefined, Num(0), Num(-2), Num(2)}

XSegmentsInputs == {Undefined, Num(0), Num(-2), Num(2)}

YSegmentsInputs == {Undefined, Num(-10), Num(10)}

LodInputs == {Undefined, Num(0), Rat(-1, 2), Rat(1, 2), Rat(3, 2)}

CfgInputs ==
    [xSize : XSizeInputs, ySize : YSizeInputs, xSegments : XSegmentsInputs,
     ySegments : YSegmentsInputs, lod : LodInputs]

\* The entries of a log of the given kind.
Entries(l, kind) == {i \in 1..Len(l) : l[i].kind = kind}

Count(l, kind) == Cardinality(Entries(l, kind))

-----------------------------------------------------------------------------
\* Actions

Assign(s) ==
    /\ xSize' = s.xSize
    /\ ySize' = s.ySize
    /\ xSegments' = s.xSegments
    /\ ySegments' = s.ySegments
    /\ lod' = s.lod
    /\ dirty' = s.dirty
    /\ pending' = s.pending
    /\ positions' = s.positions
    /\ normals' = s.normals
    /\ uv' = s.uv
    /\ indices' = s.indices
    /\ grid' = s.grid
    /\ log' = s.log

\* A setter call from outside the Plane.
Call(s) ==
    /\ ~destroyed
    /\ mutations < MaxMutations
    /\ Assign(s)
    /\ mutations' = mutations + Count(s.log, "fire")
    /\ UNCHANGED destroyed

Fresh == [This EXCEPT !.log = << >>]

SetXSize == \E v \in XSizeInputs : Call(xSizeSet(Fresh, v))

SetYSize == \E v \in YSizeInputs : Call(ySizeSet(Fresh, v))

SetXSegments == \E v \in XSegmentsInputs : Call(xSegmentsSet(Fresh, v))

SetYSegments == \E v \in YSegmentsInputs : Call(ySegmentsSet(Fresh, v))

SetLod == \E v \in LodInputs : Call(lodSet(Fresh, v))

\* One tick of the scene.  The log starts with the number of effective
\* mutations the tick found.
Tick ==
    /\ Assign(tick2(Logged(Fresh, "mutations", "", Num(mutations))))
    /\ mutations' = 0
    /\ UNCHANGED destroyed

\* A call of _getJSON; the log holds what it returned.
GetJSON ==
    /\ Assign(Logged(Fresh, "getJSON", "", getJSON(This)))
    /\ UNCHANGED << mutations, destroyed >>

\* The state construction leaves.
Constructed(s) ==
    /\ xSize = s.xSize
    /\ ySize = s.ySize
    /\ xSegments = s.xSegments
    /\ ySegments = s.ySegments
    /\ lod = s.lod
    /\ dirty = s.dirty
    /\ pending = s.pending
    /\ positions = s.positions
    /\ normals = s.normals
    /\ uv = s.uv
    /\ indices = s.indices
    /\ grid = s.grid
    /\ log = s.log
    /\ mutations = Count(s.log, "fire")
    /\ destroyed = FALSE

Init == \E cfg \in CfgInputs : Constructed(init(Blank, cfg))

Next ==
    \/ SetXSize
    \/ SetYSize
    \/ SetXSegments
    \/ SetYSegments
    \/ SetLod
    \/ Tick
    \/ GetJSON

Spec == Init /\ [][Next]_vars

-----------------------------------------------------------------------------
\* Grids of about 65535 vertices: 255*257 = 65535 and 256*256 = 65536.

XSegmentsWide == {Num(254), Num(255)}

YSegmentsWide == {Num(255), Num(-256)}

LodWide == {Undefined, Num(0), Num(2)}

SetXSegmentsWide == \E v \in XSegmentsWide : Call(xSegmentsSet(Fresh, v))

SetYSegmentsWide == \E v \in YSegmentsWide : Call(ySegmentsSet(Fresh, v))

SetLodWide == \E v \in LodWide : Call(lodSet(Fresh, v))

InitWide ==
    \E cfg \in [xSize : {Undefined}, ySize : {Undefined},
                xSegments : XSegmentsWide \cup {Undefined},
                ySegments : YSegmentsWide \cup {Undefined}, lod : LodWide] :
        Constructed(init(Blank, cfg))

NextWide ==
    \/ SetXSegmentsWide
    \/ SetYSegmentsWide
    \/ SetLodWide
    \/ Tick
    \/ GetJSON

SpecWide == InitWide /\ [][NextWide]_vars

-----------------------------------------------------------------------------
\* The elements of this.positions, this.normals and this.uv.
VertexElements ==
    FillVertices(grid, [positions |-> positions, normals |-> normals, uvs |-> uv])

\* The elements of this.indices.
IndexElements == FillIndices(grid, indices)

-----------------------------------------------------------------------------
\* Teardown.  The Plane is marked destroyed and its setters are called no
\* more.  The callback _gridDirty registered stays with the scene: the call
\* scene.once("tick2", ...) passes the scene no owner and its result, the
\* handle of the subscription, is dropped.
Destroy ==
    /\ ~destroyed
    /\ destroyed' = TRUE
    /\ Assign(Logged(Fresh, "destroy", "", Undefined))
    /\ UNCHANGED mutations

NextTeardown ==
    \/ Next
    \/ Destroy

SpecTeardown == Init /\ [][NextTeardown]_vars

-----------------------------------------------------------------------------
\* Reading the log

Min(S) == CHOOSE x \in S : \A y \in S : x <= y

Max2(a, b) == IF a >= b THEN a ELSE b

Stored(name) ==
    CASE name = "xSize" -> xSize
      [] name = "ySize" -> ySize
      [] name = "xSegments" -> xSegments
      [] name = "ySegments" -> ySegments
      [] name = "lod" -> lod

\* The setter calls of the log, and the last entry of the call that starts at i.
Calls(l) == Entries(l, "set")

CallEnd(l, i) ==
    LET later == {j \in Calls(l) : j > i}
    IN  IF later = {} THEN Len(l) ELSE Min(later) - 1

\* The entries of the given kind that the call starting at i made.
Within(l, i, kind) == {j \in i..CallEnd(l, i) : l[j].kind = kind}

Sized == {"xSize", "ySize", "xSegments", "ySegments"}

Built == Count(log, "buildGrid") >= 1

-----------------------------------------------------------------------------
\* C1: between two ticks, starting clean, any number n >= 1 of effective
\* mutations leaves exactly one rebuild callback registered, and the next tick
\* calls _buildGrid exactly once (and not at all when there was no mutation);
\* never is more than one rebuild callback pending.
C1_Coalescing ==
    /\ pending <= 1
    /\ mutations >= 1 => (pending = 1 /\ dirty)
    /\ mutations = 0 => (pending = 0 /\ ~dirty)
    /\ log[1].kind = "mutations" =>
          /\ Count(log, "buildGrid") = (IF log[1].value[1] >= 1 THEN 1 ELSE 0)
          /\ pending = 0

\* A tick that found two to four mutations made since the tick before it, and
\* built once.
C1_Witness ==
    /\ log[1].kind = "mutations"
    /\ log[1].value[1] \in 2..4
    /\ Count(log, "buildGrid") = 1

\* C2: a setter called with the value its property holds leaves the stored
\* values, the dirty flag, the pending callbacks and the buffers as they were,
\* and neither fires an event nor warns.
C2_NoOpGuard ==
    [][(log'[1].kind = "set" /\ log'[1].value = Stored(log'[1].name)) =>
          /\ UNCHANGED << params, dirty, pending, buffers, mutations >>
          /\ log' = << Entry("set", log'[1].name, log'[1].value) >>]_vars

\* xSize was set to the 2 it held.
C2_Witness ==
    /\ log = << Entry("set", "xSize", Num(2)) >>
    /\ xSize = Num(2)

\* C3: the lod setter stores 0 for a value below 0 and 1 for a value above 1,
\* warning in both cases, and stores a value of [0,1] as given without warning.
C3_ClampLaw ==
    \A i \in Calls(log) :
        (log[i].name = "lod" /\ log[i].value # Undefined) =>
            LET v == log[i].value
                warned == Within(log, i, "warn") # {}
            IN  /\ Lt(v, Num(0)) => (lod = Num(0) /\ warned)
                /\ Lt(Num(1), v) => (lod = Num(1) /\ warned)
                /\ (~Lt(v, Num(0)) /\ ~Lt(Num(1), v)) => (lod = v /\ ~warned)

\* lod was set to -1/2: 0 is stored and a warning was given.
C3_Witness ==
    /\ log[1] = Entry("set", "lod", Rat(-1, 2))
    /\ lod = Num(0)
    /\ Within(log, 1, "warn") # {}

\* C4: a size or segment count set to a negative v stores -v, warns once,
\* marks the grid dirty and fires the event with -v; no negative value is
\* ever stored.
C4_SignCorrection ==
    /\ \A i \in Calls(log) :
          (log[i].name \in Sized /\ log[i].value # Undefined
             /\ Lt(log[i].value, Num(0))) =>
              LET v == log[i].value
                  flipped == << -v[1], v[2] >>
              IN  /\ Stored(log[i].name) = flipped
                  /\ Cardinality(Within(log, i, "warn")) = 1
                  /\ Cardinality(Within(log, i, "gridDirty")) = 1
                  /\ \E j \in Within(log, i, "fire") :
                        log[j].name = log[i].name /\ log[j].value = flipped
                  /\ dirty
    /\ \A j \in Entries(log, "store") : ~Lt(log[j].value, Num(0))
    /\ \A name \in Sized : ~Lt(Stored(name), Num(0))

\* xSegments was set to -2: 2 is stored and a warning was given.
C4_Witness ==
    /\ log[1] = Entry("set", "xSegments", Num(-2))
    /\ xSegments = Num(2)
    /\ Within(log, 1, "warn") # {}
    /\ dirty

C6_SynchronousEvent ==
    \A i \in Calls(log) :
        LET st == Within(log, i, "store")
            gd == Within(log, i, "gridDirty")
            fi == Within(log, i, "fire")
        IN  /\ Cardinality(st) <= 1
            /\ Cardinality(fi) = Cardinality(st)
            /\ Cardinality(gd) = Cardinality(st)
            /\ st # {} =>
                  LET a == Min(st)
                      b == Min(gd)
                      c == Min(fi)
                  IN  /\ a < b /\ b < c
                      /\ c = CallEnd(log, i)
                      /\ log[c].name = log[i].name
                      /\ log[c].value = log[a].value
                      /\ log[c].value = Stored(log[i].name)
                      /\ ~Built
                      /\ dirty /\ pending >= 1

\* ySegments was set to -10: the event ySegments carries 10.
C6_Witness ==
    /\ log[1] = Entry("set", "ySegments", Num(-10))
    /\ log[Len(log)] = Entry("fire", "ySegments", Num(10))
    /\ ySegments = Num(10)

\* C7: a build makes positions of length 3*gridX1*gridY1, normals of the same
\* length, uvs of length 2*gridX1*gridY1 and indices of length 6*gridX*gridY,
\* with gridX1 = gridX+1 and gridY1 = gridY+1.
C7_BufferSizes ==
    grid # NoGrid =>
        /\ grid.gridX1 = grid.gridX + 1
        /\ grid.gridY1 = grid.gridY + 1
        /\ positions.length = 3 * grid.gridX1 * grid.gridY1
        /\ normals.length = positions.length
        /\ uv.length = 2 * grid.gridX1 * grid.gridY1
        /\ indices.length = 6 * grid.gridX * grid.gridY

\* A build of a 2 by 10 grid: 33 vertices, 20 cells.
C7_Witness ==
    /\ Built
    /\ grid.gridX = 2 /\ grid.gridY = 10
    /\ positions.length = 99 /\ normals.length = 99
    /\ uv.length = 66 /\ indices.length = 120

\* C8: every build has gridX = max(1, floor(lod*xSegments)) and
\* gridY = max(4, floor(lod*ySegments)); with lod = 0 they are 1 and 4;
\* neither is ever 0, so the segment width and height are finite.
C8_MinimumDensity ==
    /\ grid # NoGrid =>
          /\ grid.gridX >= 1 /\ grid.gridY >= 4
          /\ grid.segmentWidth[2] # 0 /\ grid.segmentHeight[2] # 0
    /\ Built =>
          /\ grid.gridX =
                Max2(1, (lod[1] * xSegments[1]) \div (lod[2] * xSegments[2]))
          /\ grid.gridY =
                Max2(4, (lod[1] * ySegments[1]) \div (lod[2] * ySegments[2]))
          /\ lod = Num(0) => (grid.gridX = 1 /\ grid.gridY = 4)

\* A build with lod = 0 and ySegments = 10.
C8_Witness ==
    /\ Built
    /\ lod = Num(0) /\ ySegments = Num(10)
    /\ grid.gridX = 1 /\ grid.gridY = 4

\* C9: the index buffer is a Uint32Array if and only if the build has more
\* than 65535 vertices (gridX1*gridY1), and a Uint16Array otherwise; the
\* vertex count is the one of the positions the build allocated.
C9_IndexWidth ==
    grid # NoGrid =>
        /\ positions.length = 3 * grid.gridX1 * grid.gridY1
        /\ indices.ctor = "Uint32Array" <=> grid.gridX1 * grid.gridY1 > 65535
        /\ indices.ctor = "Uint16Array" <=> grid.gridX1 * grid.gridY1 <= 65535

\* A build of 256*256 = 65536 vertices has 32-bit indices.
C9_Witness ==
    /\ Built
    /\ grid.gridX1 * grid.gridY1 = 65536
    /\ indices.ctor = "Uint32Array"

\* C10: _getJSON returns exactly xSize, ySize, xSegments and ySegments, each
\* with the stored value, and no lod; calling it changes no state.
C10_Snapshot ==
    /\ [](log[1].kind = "getJSON" =>
            /\ DOMAIN log[1].value = {"xSize", "ySize", "xSegments", "ySegments"}
            /\ log[1].value.xSize = xSize
            /\ log[1].value.ySize = ySize
            /\ log[1].value.xSegments = xSegments
            /\ log[1].value.ySegments = ySegments)
    /\ [][log'[1].kind = "getJSON" =>
            UNCHANGED << params, dirty, pending, buffers, mutations >>]_vars

\* _getJSON was called with xSize 2 and ySize at its default.
C10_Witness ==
    /\ log[1].kind = "getJSON"
    /\ log[1].value.xSize = Num(2)
    /\ log[1].value.ySize = Rat(1, 4)
    /\ lod = Rat(1, 2)

\* C11: the rebuild callback clears the dirty flag first and calls _buildGrid
\* after, so that a mutation arriving during the build finds the flag clear:
\* wherever a tick has built, the flag was cleared just before the build.
C11_ClearedBeforeBuild ==
    \A j \in Entries(log, "buildGrid") : j > 1 /\ log[j - 1].kind = "clean"

\* C12: a tick runs the rebuild that was scheduled, unless the Plane was torn
\* down first; once the Plane is torn down no _buildGrid is called for it.
C12_NoBuildAfterTeardown ==
    /\ (log[1].kind = "mutations" /\ log[1].value[1] >= 1 /\ ~destroyed) =>
          Count(log, "buildGrid") = 1
    /\ destroyed => ~Built

\* The stored value of a property after the step.
StoredAfter(name) ==
    CASE name = "xSize" -> xSize'
      [] name = "ySize" -> ySize'
      [] name = "xSegments" -> xSegments'
      [] name = "ySegments" -> ySegments'
      [] name = "lod" -> lod'

\* C13: a setter call fires its event and marks the grid dirty only if the
\* value stored after the call differs from the one stored before it.
C13_OnlyOnEffectiveChange ==
    [][(log'[1].kind = "set"
          /\ (Within(log', 1, "fire") # {} \/ Within(log', 1, "gridDirty") # {})) =>
          StoredAfter(log'[1].name) # Stored(log'[1].name)]_vars

\* What a build from the stored values gives.
Rebuilt == buildGrid(This)

Properties == {"xSize", "ySize", "xSegments", "ySegments", "lod"}

\* C16: a setter call leaves the other four stored values and the buffers as
\* they were; the buffers change only in a tick that rebuilds, which assigns
\* all four from one build and leaves the five stored values as they were.
C16_Frame ==
    [][/\ log'[1].kind = "set" =>
            /\ \A name \in Properties \ {log'[1].name} :
                  StoredAfter(name) = Stored(name)
            /\ UNCHANGED buffers
       /\ buffers' # buffers =>
            (log'[1].kind = "mutations" /\ Count(log', "buildGrid") >= 1)
       /\ log'[1].kind = "mutations" =>
            /\ UNCHANGED params
            /\ Count(log', "buildGrid") = 0 => UNCHANGED buffers
            /\ Count(log', "buildGrid") >= 1 =>
                  /\ grid' = Rebuilt.grid
                  /\ positions' = Rebuilt.positions
                  /\ normals' = Rebuilt.normals
                  /\ uv' = Rebuilt.uv
                  /\ indices' = Rebuilt.indices]_vars

\* ySize was set to 2 after a build for 0.25: the buffers are still those of
\* that build.
C16_Witness ==
    /\ log[1] = Entry("set", "ySize", Num(2))
    /\ ySize = Num(2)
    /\ grid.height = Rat(1, 4)
    /\ positions # NoBuffer

\* C17: after a build, for every cell (ix, iy) of the grid, with
\* a = ix + gridX1*iy, b = ix + gridX1*(iy+1), c = (ix+1) + gridX1*(iy+1) and
\* d = (ix+1) + gridX1*iy, the six elements of the index buffer from offset
\* 6*(iy*gridX + ix) on are d, b, a, d, c, b; the slots written are exactly
\* those of the cells, all inside the buffer.
C17_TriangleEmission ==
    Built =>
        LET e == IndexElements
            gridX == grid.gridX
            gridY == grid.gridY
            gridX1 == grid.gridX1
        IN  /\ \A iy \in 0..(gridY - 1) : \A ix \in 0..(gridX - 1) :
                  LET a == ix + gridX1 * iy
                      b == ix + gridX1 * (iy + 1)
                      c == (ix + 1) + gridX1 * (iy + 1)
                      d == (ix + 1) + gridX1 * iy
                      o == 6 * (iy * gridX + ix)
                  IN  /\ e.indices[o] = d
                      /\ e.indices[o + 1] = b
                      /\ e.indices[o + 2] = a
                      /\ e.indices[o + 3] = d
                      /\ e.indices[o + 4] = c
                      /\ e.indices[o + 5] = b
            /\ e.written = 0..(6 * gridX * gridY - 1)
            /\ e.written = DOMAIN e.indices

\* A build of a 2 x 5 grid: the cell (1, 1) has a = 4, b = 7, c = 8, d = 5 and
\* its six indices are at 18..23.
C17_Witness ==
    /\ Built
    /\ grid.gridX = 2
    /\ grid.gridY = 5
    /\ indices = TypedArray("Uint16Array", 60)
    /\ IndexElements.indices[18] = 5
    /\ IndexElements.indices[19] = 7
    /\ IndexElements.indices[20] = 4
    /\ IndexElements.indices[23] = 7

-----------------------------------------------------------------------------
\* x and y of the vertex in column ix and row iy, as the formulas give them.
PositionX(ix) ==
    Sub(Mul(Num(ix), Div(grid.width, Num(grid.gridX))), Div(grid.width, Num(2)))

PositionY(iy) ==
    Sub(Mul(Num(iy), Div(grid.height, Num(grid.gridY))), Div(grid.height, Num(2)))

\* C18 as stated: after a build, the vertex v = iy*gridX1 + ix has the position
\* (ix*segmentWidth - width/2, -(iy*segmentHeight - height/2), 0) exactly.
C18_ExactPositions ==
    Built =>
        LET P == VertexElements.positions
        IN  \A iy \in 0..(grid.gridY1 - 1) : \A ix \in 0..(grid.gridX1 - 1) :
                LET v == iy * grid.gridX1 + ix
                IN  /\ P[3 * v] = PositionX(ix)
                    /\ P[3 * v + 1] = Neg(PositionY(iy))
                    /\ P[3 * v + 2] = Num(0)

\* C18: after a build, the vertex v = iy*gridX1 + ix has for position the
\* single-precision roundings of ix*segmentWidth - width/2 and of
\* -(iy*segmentHeight - height/2), and 0; for width = 2, height = 2, gridX = 1,
\* gridY = 4 there are 10 vertices and 24 indices and vertex 0 is at (-1, 1, 0);
\* the four corner vertices are at the single-precision roundings of
\* (+-width/2, +-height/2, 0).
C18_VertexPositions ==
    Built =>
        LET P == VertexElements.positions
            gridX1 == grid.gridX1
            halfWidth == Fround(Div(grid.width, Num(2)))
            halfHeight == Fround(Div(grid.height, Num(2)))
            corner(v, x, y) ==
                P[3 * v] = x /\ P[3 * v + 1] = y /\ P[3 * v + 2] = Num(0)
        IN  /\ \A iy \in 0..(grid.gridY1 - 1) : \A ix \in 0..(gridX1 - 1) :
                  LET v == iy * gridX1 + ix
                  IN  /\ P[3 * v] = Fround(PositionX(ix))
                      /\ P[3 * v + 1] = Fround(Neg(PositionY(iy)))
                      /\ P[3 * v + 2] = Num(0)
            /\ (grid.width = Num(2) /\ grid.height = Num(2)
                    /\ grid.gridX = 1 /\ grid.gridY = 4) =>
                  /\ positions.length = 3 * 10
                  /\ indices.length = 24
                  /\ P[0] = Num(-1) /\ P[1] = Num(1) /\ P[2] = Num(0)
            /\ corner(0, Neg(halfWidth), halfHeight)
            /\ corner(grid.gridX, halfWidth, halfHeight)
            /\ corner(grid.gridY * gridX1, Neg(halfWidth), Neg(halfHeight))
            /\ corner(grid.gridY * gridX1 + grid.gridX, halfWidth, Neg(halfHeight))

\* The build of the example: width = 2, height = 2, gridX = 1, gridY = 4.
C18_Witness ==
    /\ Built
    /\ grid.width = Num(2) /\ grid.height = Num(2)
    /\ grid.gridX = 1 /\ grid.gridY = 4
    /\ positions = TypedArray("Float32Array", 30)
    /\ indices.length = 24
    /\ VertexElements.positions[0] = Num(-1)
    /\ VertexElements.positions[1] = Num(1)
    /\ VertexElements.positions[29] = Num(0)

-----------------------------------------------------------------------------
\* C19: in every build, each of the six indices computed for each cell is an
\* integer from 0 to gridX1*gridY1 - 1, is at most 65534 when the index buffer
\* is a Uint16Array, and is what the index buffer keeps of it.
C19_IndexValidity ==
    Built =>
        \A iy \in 0..(grid.gridY - 1) : \A ix \in 0..(grid.gridX - 1) :
            LET six == CellIndices(grid, ix, iy)
            IN  \A k \in 1..6 :
                    /\ six[k] \in Nat
                    /\ six[k] < grid.gridX1 * grid.gridY1
                    /\ indices.ctor = "Uint16Array" => six[k] <= 65534
                    /\ StoreElement(indices.ctor, six[k]) = six[k]

\* A build of 255 x 257 = 65535 vertices with 16-bit indices: the last cell's
\* c is 65534.
C19_Witness ==
    /\ Built
    /\ grid.gridX1 * grid.gridY1 = 65535
    /\ indices.ctor = "Uint16Array"
    /\ CellIndices(grid, grid.gridX - 1, grid.gridY - 1)[5] = 65534
    /\ StoreElement("Uint16Array", 65534) = 65534

====
